---- MODULE Spec2Model ----
(***************************************************************************)
(* Linear-prediction formant extraction of acousticsim                     *)
(* (acousticsim/representations/formants.py).                              *)
(*                                                                         *)
(* The specifications of this module:                                      *)
(*   SpecLpc       the LPC layer: lpc, acorr_lpc, levinson_1d, lpc_ref;    *)
(*   Spec          LpcFormants: construction, process (the frame loop in   *)
(*                 the order of the source), to_array;                     *)
(*   SpecAnyOrder  LpcFormants with the loop passes taken in any order.    *)
(*                                                                         *)
(* Numbers of the LPC layer are exact rationals <<n, d>> with d > 0 and    *)
(* gcd(n, d) = 1.  <<0, 0>> stands for a non-finite float (inf or nan) and *)
(* <<1, 0>> for an entry of an np.empty array that was never written.      *)
(* Arrays keep the 0-based indices of the source: they are functions on    *)
(* 0..len-1.                                                               *)
(***************************************************************************)
EXTENDS Integers, Sequences, FiniteSets, TLC

VARIABLES
    \* ---- LPC layer ----
    entry,      \* the function called: "lpc", "levinson_1d", "lpc_ref", "none"
    signal,     \* its signal argument (0-based array of integers)
    order,      \* its order argument
    r,          \* autocorrelation vector (0-based array of rationals)
    a,          \* levinson_1d: estimated coefficients
    t,          \* levinson_1d: temporary array
    k,          \* levinson_1d: reflection coefficients
    e,          \* levinson_1d: prediction error
    step,       \* levinson_1d: loop variable i of line 109
    lpc_pc,     \* "call", "lev", "returned", "raised", "idle"
    lpc_err     \* the ValueError message raised, or "none"

lpcVars == <<entry, signal, order, r, a, t, k, e, step, lpc_pc, lpc_err>>

VARIABLES
    \* ---- LpcFormants ----
    args,       \* the caller's constructor arguments
    self,       \* the object's fields set by Formants.__init__
    proc,       \* the pre-emphasised, resampled signal (0-based array)
    seed,       \* selects the root finder's answers (see np_roots)
    rep,        \* self._rep: the dict, as <<key, frame>> pairs in insertion order
    nperseg, nperstep, window, indices,
    fi,         \* number of loop passes begun so far, plus one
    visited,    \* the positions of indices whose loop pass has begun
    formants,   \* the local variable formants of process
    pc,         \* "new", "init", "loop", "done", "raised", "array", "array_raised", "idle"
    err,        \* the exception that left process or to_array, or "none"
    output      \* the array to_array returned

procVars == <<args, self, proc, seed, rep, nperseg, nperstep, window, indices,
              fi, visited, formants, pc, err, output>>

vars == <<lpcVars, procVars>>

-----------------------------------------------------------------------------
(* Bounds *)

MaxOrder == 3
MaxSig == 3

SampleVals == -1..1
R0Vals == 0..2
LagVals == -1..1

-----------------------------------------------------------------------------
(* Exact arithmetic *)

Abs(x) == IF x < 0 THEN -x ELSE x

Min(x, y) == IF x <= y THEN x ELSE y

RECURSIVE GCD(_, _)
GCD(x, y) == IF y = 0 THEN x ELSE GCD(y, x % y)

NaN == <<0, 0>>
Uninit == <<1, 0>>

IsNum(x) == x[2] # 0

Bad(x, y) == IF x = Uninit \/ y = Uninit THEN Uninit ELSE NaN

Norm(n, d) ==
    LET g == GCD(Abs(n), Abs(d))
        s == IF d < 0 THEN -1 ELSE 1
    IN  <<(s * n) \div g, (s * d) \div g>>

Rat(n) == <<n, 1>>

RAdd(x, y) ==
    IF IsNum(x) /\ IsNum(y) THEN Norm(x[1] * y[2] + y[1] * x[2], x[2] * y[2])
    ELSE Bad(x, y)

RMul(x, y) ==
    IF IsNum(x) /\ IsNum(y) THEN Norm(x[1] * y[1], x[2] * y[2])
    ELSE Bad(x, y)

RNeg(x) == IF IsNum(x) THEN <<-x[1], x[2]>> ELSE x

\* float division: a zero divisor gives inf or nan, never an exception
RDiv(x, y) ==
    IF IsNum(x) /\ IsNum(y)
    THEN IF y[1] = 0 THEN NaN ELSE Norm(x[1] * y[2], x[2] * y[1])
    ELSE Bad(x, y)

RECURSIVE RSum(_, _, _)
\* sum of f[lo], ..., f[hi]
RSum(f, lo, hi) == IF lo > hi THEN Rat(0) ELSE RAdd(f[lo], RSum(f, lo + 1, hi))

-----------------------------------------------------------------------------
(* acorr_lpc *)

RECURSIVE NextPow2From(_, _)
NextPow2From(x, n) == IF 2 ^ n >= x THEN n ELSE NextPow2From(x, n + 1)

\* helper.nextpow2: the first integer N such that 2**N >= abs(x)
nextpow2(x) == NextPow2From(Abs(x), 0)

\* fft(x, n=nfft): the input cut or zero-padded to nfft points
Padded(x, n, nfft) == [tt \in 0..nfft - 1 |-> IF tt < n THEN x[tt] ELSE 0]

RECURSIVE IntSum(_, _, _)
IntSum(f, lo, hi) == IF lo > hi THEN 0 ELSE f[lo] + IntSum(f, lo + 1, hi)

\* real(ifft(abs(fft(x, nfft) ** 2))): the circular autocorrelation of the
\* padded input, one value per lag 0..nfft-1
CircularAcorr(x, n, nfft) ==
    LET xp == Padded(x, n, nfft)
    IN  [lag \in 0..nfft - 1 |->
            IntSum([tt \in 0..nfft - 1 |-> xp[tt] * xp[(tt + lag) % nfft]],
                   0, nfft - 1)]

\* a[..., :maxlag+1] / x.shape[-1]
_acorr_last_axis(x, n, nfft, maxlag) ==
    LET c == CircularAcorr(x, n, nfft)
        len == Min(nfft, maxlag + 1)
    IN  [lag \in 0..len - 1 |-> RDiv(Rat(c[lag]), Rat(n))]

acorr_lpc(x, n) ==
    LET maxlag == n
        nfft == 2 ^ nextpow2(2 * maxlag - 1)
    IN  _acorr_last_axis(x, n, nfft, maxlag)

ArrLen(f) == Cardinality(DOMAIN f)

-----------------------------------------------------------------------------
(* levinson_1d *)

ErrLpcOrder == "Input signal must have length >= order"
ErrLevEmpty == "Cannot operate on empty array !"
ErrLevOrder == "Order should be <= size-1"
ErrLevPivot == "First item should be != 0"
ErrRefOrder == "Input signal must have a lenght >= lpc order"
ErrRefSingular == "singular matrix"

OrderErrors == {ErrLpcOrder, ErrLevOrder, ErrRefOrder}

\* lines 88-97: the error levinson_1d raises for (r, order), or "none".
\* r is one-dimensional and real here, so the checks of lines 85 and 94 pass.
LevinsonCheck(rr, ord) ==
    LET n == ArrLen(rr)
    IN  IF n < 1 THEN ErrLevEmpty
        ELSE IF ord > n - 1 THEN ErrLevOrder
        ELSE IF ~IsNum(RDiv(Rat(1), rr[0])) THEN ErrLevPivot
        ELSE "none"

\* line 116: the indices copied from a to t in every step
CopyRangeShort(ord) == 0..ord - 2
CopyRange(ord) == 0..ord - 1

\* line 120 reads the temporary array, not the array being updated
SnapshotAliased(av, tv) == av
Snapshot(av, tv) == tv

RECURSIVE UpdateLoop(_, _, _, _, _)
\* lines 119-120: for j in range(1, i): a[j] += k[i-1] * conj(t[i-j])
UpdateLoop(av, tv, ki, i, j) ==
    IF j >= i THEN av
    ELSE UpdateLoop([av EXCEPT ![j] = RAdd(av[j], RMul(ki, Snapshot(av, tv)[i - j]))],
                    tv, ki, i, j + 1)

\* line 122: e *= 1 - k[i-1] * conj(k[i-1])
ErrorUpdate(ev, ki) == RMul(ev, RAdd(Rat(1), RNeg(RMul(ki, ki))))

\* lines 110-113
Reflection(rr, av, ev, i) ==
    LET acc == RAdd(rr[i], RSum([j \in 1..i - 1 |-> RMul(av[j], rr[i - j])], 1, i - 1))
    IN  RDiv(RNeg(acc), ev)

EmptyArr == [j \in {} |-> Uninit]

\* lines 99-107
LevinsonBegin(rr, ord) ==
    /\ a' = [j \in 0..ord |-> IF j = 0 THEN Rat(1) ELSE Uninit]
    /\ t' = [j \in 0..ord |-> Uninit]
    /\ k' = [j \in 0..ord - 1 |-> Uninit]
    /\ e' = rr[0]
    /\ step' = 1
    /\ lpc_pc' = "lev"
    /\ lpc_err' = "none"

Raise(msg) ==
    /\ lpc_pc' = "raised"
    /\ lpc_err' = msg
    /\ UNCHANGED <<a, t, k, e, step>>

\* levinson_1d(r, order), lines 84-107
CallLevinson ==
    /\ UNCHANGED procVars
    /\ lpc_pc = "call" /\ entry = "levinson_1d"
    /\ UNCHANGED <<entry, signal, order, r>>
    /\ IF LevinsonCheck(r, order) # "none"
       THEN Raise(LevinsonCheck(r, order))
       ELSE LevinsonBegin(r, order)

\* lpc(signal, order), lines 186-191, up to the loop of levinson_1d
CallLpc ==
    /\ UNCHANGED procVars
    /\ lpc_pc = "call" /\ entry = "lpc"
    /\ UNCHANGED <<entry, signal, order>>
    /\ LET n == ArrLen(signal)
       IN  IF order > n
           THEN Raise(ErrLpcOrder) /\ UNCHANGED r
           ELSE LET rr == acorr_lpc(signal, n)
                IN  /\ r' = rr
                    /\ IF LevinsonCheck(rr, order) # "none"
                       THEN Raise(LevinsonCheck(rr, order))
                       ELSE LevinsonBegin(rr, order)

\* one pass of the loop of line 109
LevinsonStep ==
    /\ UNCHANGED procVars
    /\ lpc_pc = "lev" /\ step <= order
    /\ LET i == step
           ki == Reflection(r, a, e, i)
           a1 == [a EXCEPT ![i] = ki]
           t1 == [j \in DOMAIN t |-> IF j \in CopyRange(order) THEN a1[j] ELSE t[j]]
       IN  /\ k' = [k EXCEPT ![i - 1] = ki]
           /\ t' = t1
           /\ a' = UpdateLoop(a1, t1, ki, i, 1)
           /\ e' = ErrorUpdate(e, ki)
    /\ step' = step + 1
    /\ UNCHANGED <<entry, signal, order, r, lpc_pc, lpc_err>>

\* line 124: return a, e, k
LevinsonReturn ==
    /\ UNCHANGED procVars
    /\ lpc_pc = "lev" /\ step > order
    /\ lpc_pc' = "returned"
    /\ UNCHANGED <<entry, signal, order, r, a, t, k, e, step, lpc_err>>

-----------------------------------------------------------------------------
(* lpc_ref *)

\* np.correlate(signal, signal, 'full')[size-1+lag]
LinearAcorr(x, n, lag) ==
    IntSum([tt \in 0..n - 1 |-> IF tt + lag < n THEN x[tt] * x[tt + lag] ELSE 0], 0, n - 1)

RECURSIVE Det(_, _)
\* determinant of the n x n matrix m (0-based), along its first row
Det(m, n) ==
    IF n = 0 THEN 1
    ELSE IntSum([c \in 0..n - 1 |->
                    (IF c % 2 = 0 THEN 1 ELSE -1) * m[0][c] *
                    Det([i \in 0..n - 2 |-> [j \in 0..n - 2 |->
                            m[i + 1][IF j < c THEN j ELSE j + 1]]], n - 1)],
                0, n - 1)

\* sp.linalg.toeplitz(r[:-1])
Toeplitz(rv, p) == [i \in 0..p - 1 |-> [j \in 0..p - 1 |-> rv[Abs(i - j)]]]

\* lines 37-53
CallLpcRef ==
    /\ UNCHANGED procVars
    /\ lpc_pc = "call" /\ entry = "lpc_ref"
    /\ UNCHANGED <<entry, signal, order, t, k, e, step>>
    /\ LET size == ArrLen(signal)
           p == order + 1
           nx == Min(p, size)
           rv == [lag \in 0..p - 1 |-> IF lag < nx THEN LinearAcorr(signal, size, lag) ELSE 0]
           tm == Toeplitz(rv, order)
           d == Det(tm, order)
           \* inv(T) . (-r[1:]) by Cramer's rule
           phi == [c \in 1..order |->
                      RDiv(Rat(Det([i \in 0..order - 1 |-> [j \in 0..order - 1 |->
                                       IF j = c - 1 THEN -rv[i + 1] ELSE tm[i][j]]], order)),
                           Rat(d))]
       IN  IF order > size
           THEN /\ lpc_pc' = "raised" /\ lpc_err' = ErrRefOrder
                /\ UNCHANGED <<r, a>>
           ELSE IF order > 0
           THEN /\ r' = [lag \in 0..p - 1 |-> Rat(rv[lag])]
                /\ IF d = 0
                   THEN lpc_pc' = "raised" /\ lpc_err' = ErrRefSingular /\ UNCHANGED a
                   ELSE /\ lpc_pc' = "returned" /\ lpc_err' = "none"
                        /\ a' = [j \in 0..order |-> IF j = 0 THEN Rat(1) ELSE phi[j]]
           ELSE /\ lpc_pc' = "returned" /\ lpc_err' = "none"
                /\ a' = [j \in 0..0 |-> Rat(1)]
                /\ UNCHANGED r

-----------------------------------------------------------------------------
(* The LPC layer as a state machine *)

Arrays(len, S) == [0..len - 1 -> S]

InitProcIdle ==
    /\ args = [window_shape |-> "none"] /\ self = [window_shape |-> "none"]
    /\ proc = EmptyArr /\ seed = 0 /\ rep = <<>>
    /\ nperseg = 0 /\ nperstep = 0 /\ window = [shape |-> "none", len |-> 0]
    /\ indices = <<>> /\ fi = 0 /\ visited = {} /\ formants = <<>>
    /\ pc = "idle" /\ err = "none" /\ output = [value |-> "none", rows |-> <<>>]

InitLpcIdle ==
    /\ a = EmptyArr /\ t = EmptyArr /\ k = EmptyArr
    /\ e = Uninit /\ step = 0
    /\ lpc_err = "none"

LpcCall ==
    /\ entry \in {"lpc", "levinson_1d", "lpc_ref"}
    /\ order \in 0..MaxOrder + 1
    /\ IF entry = "levinson_1d"
       THEN /\ signal = EmptyArr
            /\ \E len \in 1..MaxOrder + 1 :
                 \E r0 \in R0Vals : \E lags \in [1..len - 1 -> LagVals] :
                    r = [j \in 0..len - 1 |-> IF j = 0 THEN Rat(r0) ELSE Rat(lags[j])]
       ELSE /\ r = EmptyArr
            /\ \E len \in 1..MaxSig : signal \in Arrays(len, SampleVals)
    /\ lpc_pc = "call"
    /\ InitLpcIdle

NextLpc ==
    \/ CallLpc
    \/ CallLevinson
    \/ CallLpcRef
    \/ LevinsonStep
    \/ LevinsonReturn

InitLpc == LpcCall /\ InitProcIdle

SpecLpc == InitLpc /\ [][NextLpc]_vars
-----------------------------------------------------------------------------
(* LpcFormants                                                             *)
(*                                                                         *)
(* Times (win_len, time_step, the keys of the track) are counted in units  *)
(* of 1/(4*max_freq) s, half a sample period at the working rate           *)
(* new_sr = 2*max_freq, so that int(win_len*new_sr) can be odd or even.    *)
(* A sample of proc is 0 (zero) or 1 (not zero).  The window's weights     *)
(* are strictly positive (the Gaussian everywhere, hanning(n+2)[1:n+1]     *)
(* without its zero end points), so X * window is zero where X is.         *)
(*                                                                         *)
(* A root of the prediction polynomial is [ang, lnmag]: its argument in    *)
(* units of pi/8 counted 0..15 anticlockwise, and ln|root| in units of     *)
(* pi/100.                                                                 *)
(***************************************************************************)

MaxWin == 4
MaxLen == 5
MaxFormants == 2

MaxFreqs == {200, 400}
StepTicks == {2, 4}

TicksPerSecond(max_freq) == 4 * max_freq

None == {}
Num(v) == {v}

\* the pair of roots of one real quadratic factor: conjugates, or two real roots
ConjugatePair(q, m) == <<[ang |-> q, lnmag |-> -m], [ang |-> 16 - q, lnmag |-> -m]>>
RealPair(q1, q2) == <<[ang |-> q1, lnmag |-> -1], [ang |-> q2, lnmag |-> -2]>>

Slots ==
    << ConjugatePair(1, 1), ConjugatePair(2, 2), ConjugatePair(4, 1),
       ConjugatePair(7, 3), RealPair(0, 8), ConjugatePair(4, 2), RealPair(8, 8) >>

FrameCode(x, n) == IntSum([j \in 0..n - 1 |-> x[j] * 2 ^ j], 0, n - 1)

RECURSIVE SlotRoots(_, _)
SlotRoots(first, count) ==
    IF count = 0 THEN <<>>
    ELSE Slots[(first % Len(Slots)) + 1] \o SlotRoots(first + 2, count - 1)

\* np.roots(A), line 257: A is real (acorr_lpc returns a real part), so the
\* 2*num_formants roots are closed under conjugation.  Which roots they are
\* is a function of the windowed frame alone; seed picks the function.
np_roots(sd, x, n, num_formants) == SlotRoots(sd + FrameCode(x, n), num_formants)

\* np.imag(r) >= 0, line 258
ImagNonNeg(rt) == rt.ang \in 0..8

\* np.arctan2(np.imag(rts), np.real(rts)), in units of pi/8, in (-pi, pi]
arctan2(rt) == IF rt.ang <= 8 THEN rt.ang ELSE rt.ang - 16

\* angz * (new_sr / (2 * np.pi)), line 260
Frequency(rt, new_sr) == (arctan2(rt) * new_sr) \div 16

\* -1/2*(new_sr/(2*np.pi))*np.log(np.abs(root)), line 264
Bandwidth(rt, new_sr) == (-(new_sr * rt.lnmag)) \div 400

\* the position of entry i in the ascending order (ties keep their order:
\* arrays this short are sorted by insertion)
Rank(fs, i) ==
    1 + Cardinality({j \in 1..Len(fs) : fs[j] < fs[i] \/ (fs[j] = fs[i] /\ j < i)})

\* np.argsort(frqs), line 261
argsort(fs) == [p \in 1..Len(fs) |-> CHOOSE i \in 1..Len(fs) : Rank(fs, i) = p]

\* rts[frq_inds], line 264
NotReordered(rts, frq_inds) == rts
Reordered(rts, frq_inds) == [p \in 1..Len(frq_inds) |-> rts[frq_inds[p]]]

MinFreq == 50

\* lines 267 and 269
BelowMin(f) == f < MinFreq
AboveMaxNever(f, max_freq) == FALSE
AboveMax(f, max_freq) == f > max_freq - MinFreq

RECURSIVE Repeat(_, _)
\* [x] * n: the empty list when n <= 0
Repeat(x, n) == IF n <= 0 THEN <<>> ELSE <<x>> \o Repeat(x, n - 1)

\* line 265: formants = list()
KeptList(old) == old
NewList(old) == <<>>

RECURSIVE AppendKept(_, _, _, _, _)
\* lines 266-271
AppendKept(acc, frqs, bw, max_freq, j) ==
    IF j > Len(frqs) THEN acc
    ELSE IF BelowMin(frqs[j]) \/ AboveMax(frqs[j], max_freq)
         THEN AppendKept(acc, frqs, bw, max_freq, j + 1)
         ELSE AppendKept(Append(acc, <<Num(frqs[j]), Num(bw[j])>>), frqs, bw, max_freq, j + 1)

\* lines 257-274: the frame's list of (frequency, bandwidth) pairs
FrameFormants(old, roots, new_sr, max_freq, num_formants) ==
    LET rts == SelectSeq(roots, ImagNonNeg)
        frqs0 == [p \in 1..Len(rts) |-> Frequency(rts[p], new_sr)]
        frq_inds == argsort(frqs0)
        frqs == [p \in 1..Len(rts) |-> frqs0[frq_inds[p]]]
        sorted == Reordered(rts, frq_inds)
        bw == [p \in 1..Len(rts) |-> Bandwidth(sorted[p], new_sr)]
        kept == AppendKept(NewList(old), frqs, bw, max_freq, 1)
        missing == num_formants - Len(kept)
    IN  IF missing # 0 THEN kept \o Repeat(<<None, None>>, missing) ELSE kept

\* proc[lo:hi] for 0 <= lo
Slice(x, lo, hi) ==
    LET top == Min(hi, ArrLen(x))
    IN  [j \in 0..top - lo - 1 |-> x[lo + j]]

\* numpy broadcasting of two 1-d shapes
CanBroadcast(n1, n2) == n1 = n2 \/ n1 = 1 \/ n2 = 1
BroadcastLen(n1, n2) == IF n1 = 1 THEN n2 ELSE n1

ErrBroadcast == "operands could not be broadcast together"
ErrStopIteration == "StopIteration"
ErrRowShape == "could not broadcast input array"

\* line 253
FrameAt(c) == Slice(proc, c - nperseg \div 2, c + nperseg \div 2)

\* lpc(X, order), lines 186-191 with levinson_1d's checks: the error or "none"
LpcCheck(x, n, ord) ==
    IF ord > n THEN ErrLpcOrder ELSE LevinsonCheck(acorr_lpc(x, n), ord)

\* lines 253-255: the exception of the pass for centre c, or "none"
FrameError(c) ==
    LET x == FrameAt(c)
    IN  IF ~CanBroadcast(ArrLen(x), window.len) THEN ErrBroadcast
        ELSE LpcCheck(x, BroadcastLen(ArrLen(x), window.len), 2 * self.num_formants)

\* line 275: indices[i]/new_sr
TimeKey(c, new_sr) == (c * TicksPerSecond(self.max_freq)) \div new_sr

Keys(d) == {d[p][1] : p \in 1..Len(d)}

\* d[key] = value on a dict that keeps insertion order
DictSet(d, key, value) ==
    IF key \in Keys(d)
    THEN [p \in 1..Len(d) |-> IF d[p][1] = key THEN <<key, value>> ELSE d[p]]
    ELSE Append(d, <<key, value>>)

DictGet(d, key) == d[CHOOSE p \in 1..Len(d) : d[p][1] = key][2]

\* np.arange(start, stop, st) for st >= 1
arange(start, stop, st) ==
    LET cnt == IF stop > start THEN (stop - start + st - 1) \div st ELSE 0
    IN  [p \in 1..cnt |-> start + (p - 1) * st]

\* line 232: the window_shape LpcFormants.__init__ hands to Formants.__init__
ForwardedShape(window_shape) == "gaussian"

\* Formants.__init__, lines 195-205
Formants__init__(max_freq, num_formants, win_len, time_step, window_shape) ==
    [ max_freq |-> max_freq,
      num_formants |-> num_formants,
      win_len |-> IF window_shape = "gaussian" THEN win_len * 2 ELSE win_len,
      window_shape |-> window_shape,
      time_step |-> time_step ]

\* LpcFormants.__init__, lines 229-232
LpcFormants__init__ ==
    /\ UNCHANGED lpcVars
    /\ pc = "new"
    /\ self' = Formants__init__(args.max_freq, args.num_formants, args.win_len,
                                args.time_step, ForwardedShape(args.window_shape))
    /\ pc' = "init"
    /\ UNCHANGED <<args, proc, seed, rep, nperseg, nperstep, window, indices,
                   fi, visited, formants, err, output>>

\* process, lines 236-251
ProcessSetup ==
    /\ UNCHANGED lpcVars
    /\ pc = "init"
    /\ LET new_sr == 2 * self.max_freq
           seg == (self.win_len * new_sr) \div TicksPerSecond(self.max_freq)
           stp == (self.time_step * new_sr) \div TicksPerSecond(self.max_freq)
       IN  /\ rep' = <<>>
           /\ nperseg' = seg
           /\ nperstep' = stp
           /\ window' = [shape |-> IF self.window_shape = "gaussian"
                                   THEN "gaussian" ELSE "hann",
                         len |-> seg]
           /\ indices' = arange(seg \div 2, ArrLen(proc) - seg \div 2 + 1, stp)
    /\ fi' = 1
    /\ visited' = {}
    /\ formants' = <<>>
    /\ pc' = "loop"
    /\ UNCHANGED <<args, self, proc, seed, err, output>>

\* where an exception of a loop pass goes: nothing in process catches it
AfterFrameErrorSkip == "loop"
AfterFrameError == "raised"

\* one pass of the loop of line 252, for position ix of indices
ProcessFrameAt(ix) ==
    /\ UNCHANGED lpcVars
    /\ pc = "loop"
    /\ ix \in 1..Len(indices) /\ ix \notin visited
    /\ visited' = visited \cup {ix}
    /\ fi' = fi + 1
    /\ LET c == indices[ix]
           new_sr == 2 * self.max_freq
           x == FrameAt(c)
       IN  IF FrameError(c) # "none"
           THEN /\ pc' = AfterFrameError
                /\ err' = FrameError(c)
                /\ UNCHANGED <<rep, formants>>
           ELSE LET fs == FrameFormants(formants,
                                        np_roots(seed, x, ArrLen(x), self.num_formants),
                                        new_sr, self.max_freq, self.num_formants)
                IN  /\ formants' = fs
                    /\ rep' = DictSet(rep, TimeKey(c, new_sr), fs)
                    /\ UNCHANGED <<pc, err>>
    /\ UNCHANGED <<args, self, proc, seed, nperseg, nperstep, window, indices, output>>

\* for i in range(num_frames)
ProcessFrame == ProcessFrameAt(fi)

\* the passes in any order
ProcessAnyFrame == \E ix \in 1..Len(indices) : ProcessFrameAt(ix)

\* the loop ends, process and the constructor return
ProcessReturn ==
    /\ UNCHANGED lpcVars
    /\ pc = "loop" /\ fi > Len(indices)
    /\ pc' = "done"
    /\ UNCHANGED <<args, self, proc, seed, rep, nperseg, nperstep, window, indices,
                   fi, visited, formants, err, output>>

\* output[i,:] = row, on a float array: None becomes nan
Cell(v) == IF v = None THEN [nan |-> TRUE, v |-> 0]
           ELSE [nan |-> FALSE, v |-> CHOOSE n \in v : TRUE]

SortedKeys(d) ==
    [p \in 1..Len(d) |->
        CHOOSE key \in Keys(d) : Cardinality({o \in Keys(d) : o < key}) = p - 1]

\* Formants.to_array, lines 211-225
to_array(value) ==
    /\ UNCHANGED lpcVars
    /\ pc = "done"
    /\ IF Len(rep) = 0
       THEN pc' = "array_raised" /\ err' = ErrStopIteration /\ UNCHANGED output
       ELSE LET times == SortedKeys(rep)
                ex == rep[1][2]
                frame_len == Len(ex)
                ch == IF value = "formant" THEN 1 ELSE 2
                row(tm) == [j \in 1..Len(DictGet(rep, tm)) |-> Cell(DictGet(rep, tm)[j][ch])]
            IN  IF \E p \in 1..Len(times) :
                      ~(Len(row(times[p])) = frame_len \/ Len(row(times[p])) = 1)
                THEN pc' = "array_raised" /\ err' = ErrRowShape /\ UNCHANGED output
                ELSE /\ pc' = "array" /\ UNCHANGED err
                     /\ output' =
                          [value |-> value,
                           rows |-> [p \in 1..Len(times) |->
                                       IF Len(row(times[p])) = frame_len
                                       THEN row(times[p])
                                       ELSE [j \in 1..frame_len |-> row(times[p])[1]]]]
    /\ UNCHANGED <<args, self, proc, seed, rep, nperseg, nperstep, window, indices,
                   fi, visited, formants>>

-----------------------------------------------------------------------------
(* LpcFormants as a state machine *)

Init ==
    /\ args \in [ window_shape : {"gaussian", "hann"},
                  win_len : 1..MaxWin,
                  time_step : StepTicks,
                  max_freq : MaxFreqs,
                  num_formants : 1..MaxFormants ]
    /\ \E len \in 0..MaxLen : proc \in Arrays(len, {0, 1})
    /\ seed \in 0..Len(Slots) - 1
    /\ self = [window_shape |-> "none"]
    /\ rep = <<>> /\ nperseg = 0 /\ nperstep = 0
    /\ window = [shape |-> "none", len |-> 0]
    /\ indices = <<>> /\ fi = 0 /\ visited = {} /\ formants = <<>>
    /\ pc = "new" /\ err = "none" /\ output = [value |-> "none", rows |-> <<>>]
    /\ entry = "none" /\ signal = EmptyArr /\ order = 0 /\ r = EmptyArr
    /\ lpc_pc = "idle"
    /\ InitLpcIdle

Next ==
    \/ LpcFormants__init__
    \/ ProcessSetup
    \/ ProcessFrame
    \/ ProcessReturn
    \/ \E value \in {"formant", "bandwidth"} : to_array(value)

Spec == Init /\ [][Next]_vars

NextAnyOrder ==
    \/ LpcFormants__init__
    \/ ProcessSetup
    \/ ProcessAnyFrame
    \/ ProcessReturn

\* the caller's shape does not reach process (ForwardedShape), so the default
\* shape stands for both
InitAnyOrder == Init /\ args.window_shape = "gaussian"

SpecAnyOrder == InitAnyOrder /\ [][NextAnyOrder]_vars
-----------------------------------------------------------------------------
(* Properties of the LPC layer (checked under SpecLpc) *)

Finished == lpc_pc \in {"returned", "raised"}

NonDegenerate == \A j \in DOMAIN a : IsNum(a[j])

OrderTooLarge ==
    IF entry = "levinson_1d" THEN order > ArrLen(r) - 1 ELSE order > ArrLen(signal)

\* C3: at every layer an order greater than the available data raises an
\* order error and returns nothing, and an order within the bound (for lpc
\* and lpc_ref up to the signal's length, for levinson_1d up to len(r) - 1)
\* raises no order error.
C3_OrderErrorIffTooLarge ==
    Finished =>
        IF OrderTooLarge
        THEN lpc_pc = "raised" /\ lpc_err \in OrderErrors
        ELSE lpc_err \notin OrderErrors

\* C4: when levinson_1d returns for r with r[0] > 0 and the recursion did not
\* degenerate, a[0] = 1 and for every i in 1..order the sum over j in
\* 1..order of r[|i-j|] * a[j] equals -r[i].
C4_LevinsonSolvesToeplitz ==
    (entry \in {"levinson_1d", "lpc"} /\ lpc_pc = "returned"
        /\ r[0][1] > 0 /\ NonDegenerate) =>
        /\ a[0] = Rat(1)
        /\ \A i \in 1..order :
              RSum([j \in 1..order |-> RMul(r[Abs(i - j)], a[j])], 1, order) = RNeg(r[i])

\* a solved system of the largest order whose coefficients are all non-zero
C4_Witness ==
    /\ entry = "levinson_1d" /\ lpc_pc = "returned" /\ order = MaxOrder
    /\ r[0][1] > 0 /\ NonDegenerate
    /\ \A j \in 1..order : a[j][1] # 0

\* C9: in every pass i of the loop of levinson_1d the update of a[1..i-1]
\* reads only pre-update values: every entry t[i-j] it reads was written in
\* that pass with the value a[i-j] had before the pass changed it, that value
\* was initialised, each a[j] becomes a[j] + k[i-1] * a[i-j] of the values
\* before the pass, and a[0] stays 1.
C9_UpdateReadsSnapshot ==
    [][(lpc_pc = "lev" /\ step' = step + 1) =>
          /\ a'[0] = Rat(1)
          /\ \A j \in 1..step - 1 :
                /\ a[step - j] # Uninit
                /\ t'[step - j] = a[step - j]
                /\ a'[j] = RAdd(a[j], RMul(k'[step - 1], a[step - j]))]_vars

\* a run of the largest order in which the passes did change a[1] after it
\* was copied
C9_Witness ==
    /\ lpc_pc = "returned" /\ entry \in {"levinson_1d", "lpc"}
    /\ order = MaxOrder /\ NonDegenerate
    /\ a[1] # t[1] /\ a[2] # t[2]

-----------------------------------------------------------------------------
(* Properties of LpcFormants (checked under Spec and SpecAnyOrder) *)

Constructed == pc \notin {"new", "idle"}

\* a root that passes line 258 and lines 267-270
Survives(rt) ==
    /\ rt.ang \in 0..8
    /\ Frequency(rt, 2 * self.max_freq) >= 50
    /\ Frequency(rt, 2 * self.max_freq) <= self.max_freq - 50

\* the roots of the frame stored at position p of the track
StoredRoots(p) ==
    LET c == (rep[p][1] * 2 * self.max_freq) \div TicksPerSecond(self.max_freq)
        x == FrameAt(c)
    IN  np_roots(seed, x, ArrLen(x), self.num_formants)

RetainedRoots(p) == SelectSeq(StoredRoots(p), LAMBDA rt : Survives(rt))

Present(frame) == {j \in 1..Len(frame) : frame[j] # <<None, None>>}

\* C1: every frame of the track has exactly num_formants entries: its
\* surviving roots first, then (None, None) pairs, and never more.
C1_FixedFrameLength ==
    \A p \in 1..Len(rep) :
        LET frame == rep[p][2]
            s == Len(RetainedRoots(p))
        IN  /\ Len(frame) = self.num_formants
            /\ s <= self.num_formants
            /\ Present(frame) = 1..s

\* a finished track holding a frame that was padded and a frame that was not
C1_Witness ==
    /\ pc = "done" /\ self.num_formants = 2
    /\ \E p, q \in 1..Len(rep) :
          /\ Present(rep[p][2]) = {1} /\ Len(StoredRoots(p)) = 4
          /\ Present(rep[q][2]) = {1, 2}

\* C2: with a signal shorter than the window (and a hop of at least one
\* sample) process returns normally with an empty track, and no loop pass
\* is begun.
C2_ShortSignalEmptyTrack ==
    (pc \in {"done", "raised"} /\ ArrLen(proc) < nperseg /\ nperseg >= 1 /\ nperstep >= 1) =>
        /\ pc = "done"
        /\ rep = <<>>
        /\ visited = {}

\* C5: process uses the window shape the caller passed: hann gives a Hann
\* window of the configured length, gaussian a Gaussian window of twice the
\* configured length.
C5_WindowShapeHonoured ==
    Constructed =>
        /\ self.window_shape = args.window_shape
        /\ self.win_len = IF args.window_shape = "gaussian"
                          THEN 2 * args.win_len ELSE args.win_len
        /\ pc # "init" => window.shape = args.window_shape

\* C6: on every track process can produce, to_array returns without error
\* an array with one row per frame and num_formants columns, the rows in
\* ascending order of the time keys, row i holding the chosen channel of the
\* i-th frame.
C6_ToArrayRectangular ==
    pc \in {"array", "array_raised"} =>
        /\ pc = "array"
        /\ Len(output.rows) = Len(rep)
        /\ \A p \in 1..Len(rep) :
              LET key == SortedKeys(rep)[p]
                  frame == DictGet(rep, key)
                  ch == IF output.value = "formant" THEN 1 ELSE 2
              IN  /\ Len(output.rows[p]) = self.num_formants
                  /\ \A j \in 1..Len(frame) : output.rows[p][j] = Cell(frame[j][ch])

RECURSIVE SequentialRep(_, _, _)
\* the track the loop builds when it takes the frames in ascending order
SequentialRep(ix, carry, acc) ==
    IF ix > Len(indices) THEN acc
    ELSE LET c == indices[ix]
             x == FrameAt(c)
             fs == FrameFormants(carry, np_roots(seed, x, ArrLen(x), self.num_formants),
                                 2 * self.max_freq, self.max_freq, self.num_formants)
         IN  SequentialRep(ix + 1, fs, DictSet(acc, TimeKey(c, 2 * self.max_freq), fs))

AsMap(d) == [key \in Keys(d) |-> DictGet(d, key)]

\* C7: whatever the order in which the frames are processed, the finished
\* track maps the same time keys to the same frames as the sequential loop,
\* with one entry per analysis frame under distinct keys.
C7_OrderIndependent ==
    pc = "done" =>
        /\ AsMap(rep) = AsMap(SequentialRep(1, <<>>, <<>>))
        /\ Len(rep) = Len(indices)
        /\ Cardinality(Keys(rep)) = Len(indices)

\* a track finished out of order whose frames differ
C7_Witness ==
    /\ pc = "done" /\ Len(rep) >= 3
    /\ rep[1][1] > rep[2][1]
    /\ rep[1][2] # rep[2][2]
    /\ Present(rep[1][2]) # {}

\* C8: an exception of a loop pass (lpc rejecting the order or a zero
\* zero-lag term among them) leaves process at that frame: the state is
\* "raised" with that error, the frame is not recorded, the frames before it
\* are, and no later frame is begun.
C8_FrameErrorAborts ==
    \A ix \in visited :
        FrameError(indices[ix]) # "none" =>
            /\ pc = "raised"
            /\ err = FrameError(indices[ix])
            /\ TimeKey(indices[ix], 2 * self.max_freq) \notin Keys(rep)
            /\ Len(rep) = ix - 1
            /\ \A later \in visited : later <= ix

\* lpc failed on a zero frame after an earlier frame was recorded and before
\* the last frame
C8_Witness ==
    /\ pc = "raised" /\ err = ErrLevPivot
    /\ Len(rep) >= 1
    /\ Cardinality(visited) < Len(indices)

\* the bandwidth the source computes: half of fs/(2*pi) times -ln|root|
HalvedBandwidth(rt) == (-(2 * self.max_freq * rt.lnmag)) \div 400

\* the bandwidth without the factor 1/2
FullBandwidth(rt) == (-(2 * self.max_freq * rt.lnmag)) \div 200

\* the entries of frame p are the retained roots of that frame, each as its
\* frequency paired with its own bandwidth bwOf, in ascending frequency
PairsMatch(p, bwOf(_)) ==
    LET frame == rep[p][2]
        kept == RetainedRoots(p)
        pair(rt) == <<Num(Frequency(rt, 2 * self.max_freq)), Num(bwOf(rt))>>
    IN  /\ Cardinality(Present(frame)) = Len(kept)
        /\ \A q \in 1..Len(kept) :
              Cardinality({j \in Present(frame) : frame[j] = pair(kept[q])})
                = Cardinality({q2 \in 1..Len(kept) : pair(kept[q2]) = pair(kept[q])})
        /\ \A j1, j2 \in Present(frame) : j1 < j2 => \A f1 \in frame[j1][1] : \A f2 \in frame[j2][1] : f1 <= f2

\* C10 as stated: bandwidth = -(workingRate/(2*pi)) * ln|root|, paired with
\* the frequency of the same root.
C10_BandwidthPaired == \A p \in 1..Len(rep) : PairsMatch(p, FullBandwidth)

\* C10 amended: bandwidth = -(1/2) * (workingRate/(2*pi)) * ln|root|, paired
\* with the frequency of the same root after sorting and filtering.
C10_HalvedBandwidthPaired == \A p \in 1..Len(rep) : PairsMatch(p, HalvedBandwidth)

\* a stored frame with two retained roots of different bandwidth that the
\* root finder returned in descending frequency
C10_Witness ==
    \E p \in 1..Len(rep) :
        LET kept == RetainedRoots(p)
        IN  /\ Len(kept) = 2
            /\ Frequency(kept[1], 2 * self.max_freq) > Frequency(kept[2], 2 * self.max_freq)
            /\ kept[1].lnmag # kept[2].lnmag
            /\ Present(rep[p][2]) = {1, 2}

====
